---- MODULE Spec2Model ----
(***************************************************************************)
(* Request lifecycle pipeline of the ollamaservice gateway.                *)
(*                                                                         *)
(* The process is one single-threaded event loop: every action below is    *)
(* one run-to-completion slice of a handler, from one suspension point     *)
(* (an await on I/O or on a timer) to the next.  Process 0 is the          *)
(* start-up routine of server.js, processes 1..NumRequests are inbound     *)
(* requests going through the middleware chain of app.js.                  *)
(***************************************************************************)
EXTENDS Integers, Sequences, FiniteSets, TLC

(* ------------------------------ bounds -------------------------------- *)

\* Number of inbound requests of one run.
NumRequests == 2

\* mongoDriver.js:101, MONGO_MAX_RETRIES of the environment (default 5).
MAX_RETRIES == 2

(* ----------------------------- processes ------------------------------ *)

Server == 0
Reqs == 1..NumRequests

\* The addresses requests come from (req.ip, the rate limiter's key).
Clients == {"10.0.0.1", "10.0.0.2"}
Procs == {Server} \cup Reqs

VARIABLES
    isConnected,    \* mongoDriver.js:143
    retryCount,     \* mongoDriver.js:159
    pc,             \* position of every process
    attempts,       \* mongoose.connect calls made by the process's
                    \* connectToDatabase call (recursion included), kept
                    \* until the process moves on from that call
    resp,           \* responses sent for the request, in order
    stages,         \* the middleware that ran for the request
    log,            \* the logger calls that carry the request's id
    err,            \* the error passed to next(err), <<>> when none
    fired,          \* the responders of errorHandler that ran
    audit,          \* state of the request's auditError call
    errorAudits,    \* documents of the error-audit collection, per request id
    unhandled,      \* requests with a promise rejection nobody handled
    effects,        \* what errorHandler did for the request, in program order
    req,            \* what the request carries: route and parsed body
    validatedPrompt,\* req.validatedPrompt, <<>> while unset
    channel,        \* rabbitMQ.js:64, TRUE when the module's channel is set
    queueAsserted,  \* the broker holds the queue 'auditoria'
    client,         \* the address the request comes from
    hits,           \* the rate limiter's counter of every client
    xRequestId,     \* the X-Request-ID header of the request's response
    published,      \* messages the request sent to the queue 'auditoria'
    adapterCalls,   \* the arguments of the request's chatOllama calls
    results         \* what the request's chatOllama calls returned

vars == <<isConnected, retryCount, pc, attempts, resp, stages, log, err,
          fired, audit, errorAudits, unhandled, effects, req,
          validatedPrompt, channel, queueAsserted, client, hits, xRequestId,
          published, adapterCalls, results>>

connVars == <<isConnected, retryCount, attempts>>
errVars == <<err, fired, audit, errorAudits, unhandled, effects>>
mqVars == <<channel, queueAsserted>>
reqVars == <<req, validatedPrompt, client, hits, xRequestId, published,
            adapterCalls, results>>

(* ------------------------------ helpers ------------------------------- *)

Entry(level, msg) == [level |-> level, msg |-> msg, stack |-> FALSE]

Logged(r, entries) == log' = [log EXCEPT ![r] = @ \o entries]

Ran(r, names) == stages' = [stages EXCEPT ![r] = @ \cup names]

Sent(r, response) == resp' = [resp EXCEPT ![r] = Append(@, response)]

\* The process has exited (server.js:52-55) iff start-up ended in "exited".
Alive == pc[Server] # "exited"

\* app.listen has been called, or app.js is driven without server.js.
Accepting == pc[Server] = "serving"

\* The 500 answer of the connection gate, mongoDriver.js:364.
GateErrorResponse ==
    [status |-> 500, body |-> [error |-> "Error de conexión a la base de datos"]]

(* ------------------- connectToDatabase, one slice each ---------------- *)

\* What follows a connectToDatabase call that returned normally:
\* server.js:29 listens, databaseConnectionMiddleware calls next().
ReturnPc(p) == IF p = Server THEN "serving" ELSE "body"

\* next() of databaseConnectionMiddleware, mongoDriver.js:369.
GateNext(p) ==
    IF p \in Reqs THEN Ran(p, {"gate-next"}) ELSE UNCHANGED stages

\* connectToDatabase without its test of isConnected.
ConnectEntryUnchecked(p) ==
    /\ pc' = [pc EXCEPT ![p] = "connecting"]
    /\ attempts' = [attempts EXCEPT ![p] = @ + 1]

\* connectToDatabase from its first line to its first await
\* (mongoDriver.js:204-224): the fast path returns, the slow path
\* starts one mongoose.connect call.
ConnectEntry(p) ==
    IF isConnected
    THEN /\ pc' = [pc EXCEPT ![p] = ReturnPc(p)]
         /\ attempts' = [attempts EXCEPT ![p] = IF p = Server THEN 0 ELSE @]
    ELSE /\ pc' = [pc EXCEPT ![p] = "connecting"]
         /\ attempts' = [attempts EXCEPT ![p] = @ + 1]

\* server.js:20-23: startServer awaits connectToDatabase.
startServer ==
    /\ pc[Server] = "boot"
    /\ ConnectEntry(Server)
    /\ UNCHANGED <<isConnected, retryCount, resp, stages, log>>
    /\ UNCHANGED errVars
    /\ UNCHANGED mqVars
    /\ UNCHANGED reqVars

\* The success branch without the reset of the retry counter.
ConnectSucceedsKeepsCount(p) ==
    /\ Alive
    /\ pc[p] = "connecting"
    /\ isConnected' = TRUE
    /\ UNCHANGED retryCount
    /\ pc' = [pc EXCEPT ![p] = ReturnPc(p)]
    /\ attempts' = [attempts EXCEPT ![p] = IF p = Server THEN 0 ELSE @]
    /\ GateNext(p)
    /\ UNCHANGED <<resp, log>>
    /\ UNCHANGED errVars
    /\ UNCHANGED mqVars
    /\ UNCHANGED reqVars

\* mongoDriver.js:221-231: the awaited mongoose.connect resolved.
ConnectSucceeds(p) ==
    /\ Alive
    /\ pc[p] = "connecting"
    /\ isConnected' = TRUE
    /\ retryCount' = 0
    /\ pc' = [pc EXCEPT ![p] = ReturnPc(p)]
    /\ attempts' = [attempts EXCEPT ![p] = IF p = Server THEN 0 ELSE @]
    /\ GateNext(p)
    /\ UNCHANGED <<resp, log>>
    /\ UNCHANGED errVars
    /\ UNCHANGED mqVars
    /\ UNCHANGED reqVars

\* The test with <= for <.
RetriesRemainInclusive == retryCount <= MAX_RETRIES

\* mongoDriver.js:240, the test that decides between retry and give-up.
RetriesRemain == retryCount < MAX_RETRIES

\* The catch block of the middleware without its return: the 500 is sent
\* and next() is called all the same.
FatalCaughtFallsThrough(p) ==
    IF p = Server
    THEN /\ pc' = [pc EXCEPT ![p] = "exited"]
         /\ UNCHANGED <<resp, stages>>
    ELSE /\ pc' = [pc EXCEPT ![p] = "body"]
         /\ Sent(p, GateErrorResponse)
         /\ Ran(p, {"gate-next"})

\* The catch block of the middleware without its answer: the request is
\* ended without a response having been sent.
FatalCaughtNoAnswer(p) ==
    IF p = Server
    THEN /\ pc' = [pc EXCEPT ![p] = "exited"]
         /\ UNCHANGED <<resp, stages>>
    ELSE /\ pc' = [pc EXCEPT ![p] = "done"]
         /\ UNCHANGED <<resp, stages>>

\* Every caller treats the fatal error as startServer does: the process
\* exits, also when the caller is the gate of a request.
FatalCaughtExits(p) ==
    IF p = Server
    THEN /\ pc' = [pc EXCEPT ![p] = "exited"]
         /\ UNCHANGED <<resp, stages>>
    ELSE /\ pc' = [pc EXCEPT ![p] = "finishing", ![Server] = "exited"]
         /\ Sent(p, GateErrorResponse)
         /\ UNCHANGED stages

\* What the caller does with the fatal error: server.js:52-55 exits the
\* process, mongoDriver.js:356-365 answers 500 and returns without next().
FatalCaught(p) ==
    IF p = Server
    THEN /\ pc' = [pc EXCEPT ![p] = "exited"]
         /\ UNCHANGED <<resp, stages>>
    ELSE /\ pc' = [pc EXCEPT ![p] = "finishing"]
         /\ Sent(p, GateErrorResponse)
         /\ UNCHANGED stages

\* A catch block that clears the retry counter when it gives up, so that
\* the next caller has the whole retry budget again.
ConnectFailsResetsCount(p) ==
    /\ Alive
    /\ pc[p] = "connecting"
    /\ IF RetriesRemain
       THEN /\ retryCount' = retryCount + 1
            /\ pc' = [pc EXCEPT ![p] = "delay"]
            /\ UNCHANGED <<resp, stages>>
       ELSE /\ retryCount' = 0
            /\ FatalCaught(p)
    /\ UNCHANGED <<isConnected, attempts, log>>
    /\ UNCHANGED errVars
    /\ UNCHANGED mqVars
    /\ UNCHANGED reqVars

\* mongoDriver.js:232-264 and, for a request, 356-365 (for start-up,
\* server.js:52-55): the awaited mongoose.connect rejected.
ConnectFails(p) ==
    /\ Alive
    /\ pc[p] = "connecting"
    /\ IF RetriesRemain
       THEN /\ retryCount' = retryCount + 1
            /\ pc' = [pc EXCEPT ![p] = "delay"]
            /\ UNCHANGED <<resp, stages>>
       ELSE /\ UNCHANGED retryCount
            /\ FatalCaught(p)
    /\ UNCHANGED <<isConnected, attempts, log>>
    /\ UNCHANGED errVars
    /\ UNCHANGED mqVars
    /\ UNCHANGED reqVars

\* mongoDriver.js:250-254: the retry delay elapsed, connectToDatabase
\* calls itself.
RetryDelayElapsed(p) ==
    /\ Alive
    /\ pc[p] = "delay"
    /\ ConnectEntry(p)
    /\ IF isConnected THEN GateNext(p) ELSE UNCHANGED stages
    /\ UNCHANGED <<isConnected, retryCount, resp, log>>
    /\ UNCHANGED errVars
    /\ UNCHANGED mqVars
    /\ UNCHANGED reqVars

\* mongoDriver.js:408-411: mongoose reports the connection lost.
LossSignal ==
    /\ Alive
    /\ isConnected
    /\ isConnected' = FALSE
    /\ UNCHANGED <<retryCount, pc, attempts, resp, stages, log>>
    /\ UNCHANGED errVars
    /\ UNCHANGED mqVars
    /\ UNCHANGED reqVars

\* disconnectFromDatabase that also clears the retry counter.
disconnectResetsRetryCount(closed) ==
    /\ Alive
    /\ isConnected' = IF closed THEN FALSE ELSE isConnected
    /\ retryCount' = IF closed THEN 0 ELSE retryCount
    /\ UNCHANGED <<pc, attempts, resp, stages, log>>
    /\ UNCHANGED errVars
    /\ UNCHANGED mqVars
    /\ UNCHANGED reqVars

\* mongoDriver.js:297-316: disconnectFromDatabase, taken at the moment the
\* awaited connection.close() settles (the slice before the await changes
\* no state).  closed = FALSE is the catch branch.
disconnectFromDatabase(closed) ==
    /\ Alive
    /\ isConnected' = IF closed THEN FALSE ELSE isConnected
    /\ UNCHANGED <<retryCount, pc, attempts, resp, stages, log>>
    /\ UNCHANGED errVars
    /\ UNCHANGED mqVars
    /\ UNCHANGED reqVars

(* --------------------------- the gate ---------------------------------- *)

\* A log event of the request lifecycle, by the metadata it carries.
Event(msg, fields) ==
    [level |-> "info", msg |-> msg, stack |-> FALSE, fields |-> fields]

\* unnamed/part_019:164-170, the event logged at the start of a request.
StartEvent ==
    Event("Incoming request", {"requestId", "method", "url", "ip", "userAgent"})

\* unnamed/part_019:176-182, the event the traceability middleware logs
\* when the response has finished.
CompletedEvent(status) ==
    [level |-> "info", msg |-> "Request completed", stack |-> FALSE,
     fields |-> {"requestId", "method", "url", "statusCode", "statusMessage"},
     statusCode |-> status]

\* middleware/logger.js:118-141, the event requestLogger logs when the
\* response has finished.
RequestLoggedEvent(status) ==
    [level |-> "info", msg |-> "<method> <url> <statusCode> - <duration>ms",
     stack |-> FALSE,
     fields |-> {"method", "url", "statusCode", "duration", "userAgent", "ip",
                 "requestId"},
     statusCode |-> status]

\* The traceability middleware without its setHeader call.
traceabilityMiddlewareWithoutHeader(r) ==
    /\ Alive
    /\ Accepting
    /\ pc[r] = "new"
    /\ pc' = [pc EXCEPT ![r] = "gate"]
    /\ Ran(r, {"traceability"})
    /\ Logged(r, <<StartEvent>>)
    /\ UNCHANGED <<resp>>
    /\ UNCHANGED connVars
    /\ UNCHANGED errVars
    /\ UNCHANGED mqVars
    /\ UNCHANGED reqVars

\* traceability middleware: the request is given its id, the id is set
\* as the X-Request-ID header of the response and the start event is
\* logged.
traceabilityMiddleware(r) ==
    /\ Alive
    /\ Accepting
    /\ pc[r] = "new"
    /\ pc' = [pc EXCEPT ![r] = "gate"]
    /\ Ran(r, {"traceability"})
    /\ xRequestId' = [xRequestId EXCEPT ![r] = <<r>>]
    /\ Logged(r, <<StartEvent>>)
    /\ UNCHANGED <<resp>>
    /\ UNCHANGED connVars
    /\ UNCHANGED errVars
    /\ UNCHANGED mqVars
    /\ UNCHANGED <<req, validatedPrompt, client, hits, published, adapterCalls,
                   results>>

\* A gate that latches the fatal state: with the retries used up it
\* answers 500 without calling connectToDatabase.
databaseConnectionMiddlewareLatched(r) ==
    /\ Alive
    /\ pc[r] = "gate"
    /\ IF isConnected
       THEN /\ pc' = [pc EXCEPT ![r] = "body"]
            /\ Ran(r, {"gate", "gate-next"})
            /\ UNCHANGED <<attempts, resp>>
       ELSE IF retryCount < MAX_RETRIES
            THEN /\ ConnectEntry(r)
                 /\ Ran(r, {"gate"})
                 /\ UNCHANGED resp
            ELSE /\ pc' = [pc EXCEPT ![r] = "finishing"]
                 /\ Sent(r, GateErrorResponse)
                 /\ Ran(r, {"gate"})
                 /\ UNCHANGED attempts
    /\ UNCHANGED <<isConnected, retryCount, log>>
    /\ UNCHANGED errVars
    /\ UNCHANGED mqVars
    /\ UNCHANGED reqVars

\* mongoDriver.js:348-370, up to the first await of connectToDatabase.
databaseConnectionMiddleware(r) ==
    /\ Alive
    /\ pc[r] = "gate"
    /\ IF isConnected
       THEN /\ pc' = [pc EXCEPT ![r] = "body"]
            /\ Ran(r, {"gate", "gate-next"})
            /\ UNCHANGED attempts
       ELSE /\ ConnectEntry(r)
            /\ Ran(r, {"gate"})
    /\ UNCHANGED <<isConnected, retryCount, resp, log>>
    /\ UNCHANGED errVars
    /\ UNCHANGED mqVars
    /\ UNCHANGED reqVars

\* The response has been written out: the 'finish' listeners of the
\* traceability middleware and, when it ran, of requestLogger
\* (middleware/logger.js:109-147) log the completion events.
Finish(r) ==
    /\ Alive
    /\ pc[r] = "finishing"
    /\ pc' = [pc EXCEPT ![r] = "done"]
    /\ Logged(r, <<CompletedEvent(resp[r][1].status)>>
                  \o (IF "requestLogger" \in stages[r]
                      THEN <<RequestLoggedEvent(resp[r][1].status)>>
                      ELSE <<>>))
    /\ UNCHANGED <<resp, stages>>
    /\ UNCHANGED connVars
    /\ UNCHANGED errVars
    /\ UNCHANGED mqVars
    /\ UNCHANGED reqVars

(* ------------------------------ inputs --------------------------------- *)

\* zod.js:110, the upper length bound of the prompt.
MAX_PROMPT_LENGTH == 4096

\* A prompt text, by what the pipeline observes of it: its length, its
\* length after trim(), the forbidden patterns its trimmed text matches
\* (their positions in the list of config/patterns.js:111-195).
Text(len, trimLen, pats) == [len |-> len, trimLen |-> trimLen, pats |-> pats]

Prompts ==
    { Text(0, 0, {}),                                   \* ""
      Text(3, 0, {}),                                   \* "   "
      Text(19, 19, {}),                                 \* "Hello, how are you?"
      Text(21, 19, {}),                                 \* " Hello, how are you? "
      Text(MAX_PROMPT_LENGTH, MAX_PROMPT_LENGTH, {}),  \* 4096 letters
      Text(MAX_PROMPT_LENGTH + 1, MAX_PROMPT_LENGTH + 1, {}),
      \* " ignore previous instructions ... ", 4096 characters between
      \* two spaces
      Text(MAX_PROMPT_LENGTH + 2, MAX_PROMPT_LENGTH, {1}),
      Text(35, 35, {1}),                                \* "ignore previous instructions please"
      Text(40, 40, {3, 5}) }                            \* "jailbreak ... system prompt"

\* The parsed request bodies: an object without prompt, an object with a
\* string prompt.
Bodies == {[prompt |-> <<>>]} \cup {[prompt |-> <<t>>] : t \in Prompts}

Routes == {"POST /", "other"}

\* An error object, by the properties errorHandler and auditError read.
\* An absent property is the empty sequence.
Error(name, cause, statusCode, message, issues) ==
    [name |-> name, cause |-> cause, statusCode |-> statusCode,
     message |-> message, issues |-> issues]

\* An issue that names no field.
IssueAtRoot(path, message) == [path |-> <<>>, message |-> message]

\* An entry of err.issues, by what errors.js:238-241 reads of it.
Issue(path, message) == [path |-> path, message |-> message]

\* What body-parser passes to next() for JSON that does not parse.
BodyParseError ==
    Error("SyntaxError", <<>>, <<400>>, <<"Unexpected token in JSON">>, <<>>)

\* What the inference adapter rejects with: the refused connection of the
\* spec, an error without status code, an error with its own status code.
AdapterErrors ==
    { Error("TypeError", <<"ECONNREFUSED">>, <<>>, <<"fetch failed">>, <<>>),
      Error("Error", <<>>, <<>>, <<"model not found">>, <<>>),
      Error("Error", <<>>, <<404>>, <<"Not Found">>, <<>>) }

\* What sendToQueue throws on a closed channel.
ChannelClosedError ==
    Error("IllegalOperationError", <<>>, <<>>, <<"Channel closed">>, <<>>)

AdapterResults == {"I am fine, thank you!", ""}

(* ------------------------ stages behind the gate ----------------------- *)

\* app.js:117-137: requestLogger and cors run, express.json reads and
\* parses the body; JSON that does not parse goes to next(err).
expressJson(r, parsed) ==
    /\ Alive
    /\ pc[r] = "body"
    /\ Ran(r, {"requestLogger", "cors", "json"})
    /\ IF ~parsed
       THEN /\ err' = [err EXCEPT ![r] = <<BodyParseError>>]
            /\ pc' = [pc EXCEPT ![r] = "error"]
       ELSE /\ UNCHANGED err
            /\ pc' = [pc EXCEPT ![r] = "mq"]
    /\ attempts' = [attempts EXCEPT ![r] = 0]
    /\ UNCHANGED <<resp, log, fired, audit, errorAudits, unhandled, effects>>
    /\ UNCHANGED <<isConnected, retryCount>>
    /\ UNCHANGED mqVars
    /\ UNCHANGED reqVars

\* The 500 answer of initRabbitMQ, rabbitMQ.js:175.
MqErrorResponse ==
    [status |-> 500, body |-> [error |-> "Error de conexión a RabbitMQ"]]

\* initRabbitMQ without its test of the module's channel: every request
\* opens a connection.
initRabbitMQAlwaysConnects(r) ==
    /\ Alive
    /\ pc[r] = "mq"
    /\ Ran(r, {"initRabbitMQ"})
    /\ pc' = [pc EXCEPT ![r] = "mq-connect"]
    /\ UNCHANGED <<resp, log>>
    /\ UNCHANGED connVars
    /\ UNCHANGED errVars
    /\ UNCHANGED mqVars
    /\ UNCHANGED reqVars

\* rabbitMQ.js:121-144: the existing channel is reused, or a connection
\* is requested.
initRabbitMQ(r) ==
    /\ Alive
    /\ pc[r] = "mq"
    /\ Ran(r, {"initRabbitMQ"})
    /\ pc' = [pc EXCEPT ![r] = IF channel THEN "rate" ELSE "mq-connect"]
    /\ UNCHANGED <<resp, log>>
    /\ UNCHANGED connVars
    /\ UNCHANGED errVars
    /\ UNCHANGED mqVars
    /\ UNCHANGED reqVars

\* The catch block without its return: the 500 is sent and the chain
\* goes on.
MqFailsCallsNext(r) ==
    /\ Sent(r, MqErrorResponse)
    /\ pc' = [pc EXCEPT ![r] = "rate"]
    /\ UNCHANGED mqVars

\* rabbitMQ.js:167-176, the catch block.
MqFails(r) ==
    /\ Sent(r, MqErrorResponse)
    /\ pc' = [pc EXCEPT ![r] = "finishing"]
    /\ UNCHANGED mqVars

\* rabbitMQ.js:144: amqp.connect settled.
amqpConnectSettles(r, ok) ==
    /\ Alive
    /\ pc[r] = "mq-connect"
    /\ IF ok
       THEN /\ pc' = [pc EXCEPT ![r] = "mq-channel"]
            /\ UNCHANGED <<resp, channel, queueAsserted>>
       ELSE MqFails(r)
    /\ UNCHANGED <<stages, log>>
    /\ UNCHANGED connVars
    /\ UNCHANGED errVars
    /\ UNCHANGED reqVars

\* rabbitMQ.js:149: createChannel settled; the module's channel is set
\* before the queue is asserted.
createChannelSettles(r, ok) ==
    /\ Alive
    /\ pc[r] = "mq-channel"
    /\ IF ok
       THEN /\ channel' = TRUE
            /\ pc' = [pc EXCEPT ![r] = "mq-assert"]
            /\ UNCHANGED <<resp, queueAsserted>>
       ELSE MqFails(r)
    /\ UNCHANGED <<stages, log>>
    /\ UNCHANGED connVars
    /\ UNCHANGED errVars
    /\ UNCHANGED reqVars

\* rabbitMQ.js:154-166: assertQueue settled.
assertQueueSettles(r, ok) ==
    /\ Alive
    /\ pc[r] = "mq-assert"
    /\ IF ok
       THEN /\ queueAsserted' = TRUE
            /\ pc' = [pc EXCEPT ![r] = "rate"]
            /\ UNCHANGED <<resp, channel>>
       ELSE MqFails(r)
    /\ UNCHANGED <<stages, log>>
    /\ UNCHANGED connVars
    /\ UNCHANGED errVars
    /\ UNCHANGED reqVars

\* utils.js:185, the requests allowed per window.
RATE_MAX == 20

\* The 429 answer of the rate limiter, utils.js:201-204.
RateLimitResponse ==
    [status |-> 429,
     body |-> [error |-> "Límite de solicitudes excedido",
               message |-> "Has realizado demasiadas solicitudes. Por favor, espera un momento."]]

\* A limiter that refuses the request that reaches the limit.
rateLimiterInclusive(r) ==
    /\ Alive
    /\ pc[r] = "rate"
    /\ hits' = [hits EXCEPT ![client[r]] = @ + 1]
    /\ Ran(r, {"rateLimiter"})
    /\ IF hits[client[r]] + 1 >= RATE_MAX
       THEN /\ Sent(r, RateLimitResponse)
            /\ pc' = [pc EXCEPT ![r] = "finishing"]
       ELSE /\ UNCHANGED resp
            /\ pc' = [pc EXCEPT ![r] = "validate"]
    /\ UNCHANGED <<log, req, validatedPrompt, client, xRequestId, published,
                   adapterCalls, results>>
    /\ UNCHANGED connVars
    /\ UNCHANGED errVars
    /\ UNCHANGED mqVars

\* utils.js:154-237: the client's counter is incremented and compared.
rateLimiter(r) ==
    /\ Alive
    /\ pc[r] = "rate"
    /\ hits' = [hits EXCEPT ![client[r]] = @ + 1]
    /\ Ran(r, {"rateLimiter"})
    /\ IF hits[client[r]] + 1 > RATE_MAX
       THEN /\ Sent(r, RateLimitResponse)
            /\ pc' = [pc EXCEPT ![r] = "finishing"]
       ELSE /\ UNCHANGED resp
            /\ pc' = [pc EXCEPT ![r] = "validate"]
    /\ UNCHANGED <<log, req, validatedPrompt, client, xRequestId, published,
                   adapterCalls, results>>
    /\ UNCHANGED connVars
    /\ UNCHANGED errVars
    /\ UNCHANGED mqVars

\* utils.js:169: the window of a client, which began with the first
\* request counted for it, has run out and its counter starts again.
WindowElapsed(c) ==
    /\ Alive
    /\ hits[c] > 0
    /\ hits' = [hits EXCEPT ![c] = 0]
    /\ UNCHANGED <<pc, resp, stages, log>>
    /\ UNCHANGED connVars
    /\ UNCHANGED errVars
    /\ UNCHANGED mqVars
    /\ UNCHANGED <<req, validatedPrompt, client, xRequestId, published,
                   adapterCalls, results>>

\* The string schema with trim() ahead of the length checks.
IssuesOnTrimmed(body) ==
    IF body.prompt = <<>>
    THEN <<[path |-> <<"prompt">>, message |-> "El campo \"prompt\" es obligatorio."]>>
    ELSE LET t == body.prompt[1] IN
         (IF t.trimLen < 1
          THEN <<[path |-> <<"prompt">>, message |-> "El prompt no puede estar vacío."]>>
          ELSE <<>>)
         \o (IF t.trimLen > MAX_PROMPT_LENGTH
             THEN <<[path |-> <<"prompt">>, message |-> "El prompt no puede exceder los 4096 caracteres."]>>
             ELSE <<>>)
         \o (IF ~(t.trimLen > 0)
             THEN <<[path |-> <<"prompt">>, message |-> "El prompt no puede contener solo espacios."]>>
             ELSE <<>>)

\* zod.js:86-115: the issues promptSchema.parse reports for a body.  The
\* length checks of the string schema see the text as sent, trim() comes
\* after them, the refinement sees the trimmed text.
Issues(body) ==
    IF body.prompt = <<>>
    THEN <<Issue(<<"prompt">>, "El campo \"prompt\" es obligatorio.")>>
    ELSE LET t == body.prompt[1] IN
         (IF t.len < 1
          THEN <<Issue(<<"prompt">>, "El prompt no puede estar vacío.")>>
          ELSE <<>>)
         \o (IF t.len > MAX_PROMPT_LENGTH
             THEN <<Issue(<<"prompt">>, "El prompt no puede exceder los 4096 caracteres.")>>
             ELSE <<>>)
         \o (IF ~(t.trimLen > 0)
             THEN <<Issue(<<"prompt">>, "El prompt no puede contener solo espacios.")>>
             ELSE <<>>)

\* zod.js:111: the parsed prompt is the trimmed text.
Trimmed(t) == Text(t.trimLen, t.trimLen, t.pats)

\* The error of a failed parse under another name.
ZodErrorUnnamed(issues) == Error("Error", <<>>, <<>>, <<"validation failed">>, issues)

\* validations.js:127: what promptSchema.parse throws.
ZodError(issues) == Error("ZodError", <<>>, <<>>, <<"validation failed">>, issues)

\* The last pattern of the list that matches.
LastMatch(t) == CHOOSE i \in t.pats : \A j \in t.pats : i >= j

\* validations.js:133-136: the first pattern of the list that matches.
FirstMatch(t) == CHOOSE i \in t.pats : \A j \in t.pats : i <= j

\* validations.js:142: the copy of the prompt that is logged.
Truncated(t) ==
    [len |-> IF t.len > 50 THEN 50 ELSE t.len, ellipsis |-> t.len > 50]

\* The 400 answer of the content filter, validations.js:149-152.
ContentRejectedResponse ==
    [status |-> 400,
     body |-> [error |-> "Contenido no permitido",
               message |-> "El prompt contiene patrones bloqueados por seguridad (jailbreak, etc.)."]]

\* validatePrompt with the content filter applied to the text as sent,
\* ahead of promptSchema.parse.
validatePromptFilterFirst(r, route, body) ==
    /\ Alive
    /\ pc[r] = "validate"
    /\ Ran(r, {"validatePrompt"})
    /\ req' = [req EXCEPT ![r] = <<[route |-> route, body |-> body]>>]
    /\ IF body.prompt # <<>> /\ body.prompt[1].pats # {}
       THEN /\ Logged(r, <<[level |-> "warn",
                            msg |-> "Prompt contains forbidden pattern",
                            stack |-> FALSE,
                            pattern |-> FirstMatch(body.prompt[1]),
                            prompt |-> Truncated(body.prompt[1])]>>)
            /\ Sent(r, ContentRejectedResponse)
            /\ pc' = [pc EXCEPT ![r] = "finishing"]
            /\ UNCHANGED <<err, validatedPrompt>>
       ELSE IF Issues(body) # <<>>
            THEN /\ Logged(r, <<Entry("warn", "Prompt validation failed")>>)
                 /\ err' = [err EXCEPT ![r] = <<ZodError(Issues(body))>>]
                 /\ pc' = [pc EXCEPT ![r] = "error"]
                 /\ UNCHANGED <<resp, validatedPrompt>>
            ELSE /\ validatedPrompt' = [validatedPrompt EXCEPT ![r] =
                                           <<Trimmed(body.prompt[1])>>]
                 /\ pc' = [pc EXCEPT ![r] = "route"]
                 /\ UNCHANGED <<resp, log, err>>
    /\ UNCHANGED <<fired, audit, errorAudits, unhandled, effects, client, hits,
                   xRequestId, published, adapterCalls, results>>
    /\ UNCHANGED connVars
    /\ UNCHANGED mqVars

\* validatePrompt with next() called after the rejection was sent.
validatePromptForwardsRejected(r, route, body) ==
    /\ Alive
    /\ pc[r] = "validate"
    /\ Ran(r, {"validatePrompt"})
    /\ req' = [req EXCEPT ![r] = <<[route |-> route, body |-> body]>>]
    /\ IF Issues(body) # <<>>
       THEN /\ Logged(r, <<Entry("warn", "Prompt validation failed")>>)
            /\ err' = [err EXCEPT ![r] = <<ZodError(Issues(body))>>]
            /\ pc' = [pc EXCEPT ![r] = "error"]
            /\ UNCHANGED <<resp, validatedPrompt>>
       ELSE LET prompt == Trimmed(body.prompt[1]) IN
            /\ IF prompt.pats # {}
               THEN /\ Logged(r, <<[level |-> "warn",
                                    msg |-> "Prompt contains forbidden pattern",
                                    stack |-> FALSE,
                                    pattern |-> FirstMatch(prompt),
                                    prompt |-> Truncated(prompt)]>>)
                    /\ Sent(r, ContentRejectedResponse)
               ELSE UNCHANGED <<resp, log>>
            /\ validatedPrompt' = [validatedPrompt EXCEPT ![r] = <<prompt>>]
            /\ pc' = [pc EXCEPT ![r] = "route"]
            /\ UNCHANGED err
    /\ UNCHANGED <<fired, audit, errorAudits, unhandled, effects, client, hits,
                   xRequestId, published, adapterCalls, results>>
    /\ UNCHANGED connVars
    /\ UNCHANGED mqVars

\* validations.js:122-177.  The route and the parsed body of the request
\* are drawn here, where the pipeline first looks at them.
validatePrompt(r, route, body) ==
    /\ Alive
    /\ pc[r] = "validate"
    /\ Ran(r, {"validatePrompt"})
    /\ req' = [req EXCEPT ![r] = <<[route |-> route, body |-> body]>>]
    /\ IF Issues(body) # <<>>
       THEN /\ Logged(r, <<Entry("warn", "Prompt validation failed")>>)
            /\ err' = [err EXCEPT ![r] = <<ZodError(Issues(body))>>]
            /\ pc' = [pc EXCEPT ![r] = "error"]
            /\ UNCHANGED <<resp, validatedPrompt>>
       ELSE LET prompt == Trimmed(body.prompt[1]) IN
            IF prompt.pats # {}
            THEN /\ Logged(r, <<[level |-> "warn",
                                 msg |-> "Prompt contains forbidden pattern",
                                 stack |-> FALSE,
                                 pattern |-> FirstMatch(prompt),
                                 prompt |-> Truncated(prompt)]>>)
                 /\ Sent(r, ContentRejectedResponse)
                 /\ pc' = [pc EXCEPT ![r] = "finishing"]
                 /\ UNCHANGED <<err, validatedPrompt>>
            ELSE /\ validatedPrompt' = [validatedPrompt EXCEPT ![r] = <<prompt>>]
                 /\ pc' = [pc EXCEPT ![r] = "route"]
                 /\ UNCHANGED <<resp, log, err>>
    /\ UNCHANGED <<fired, audit, errorAudits, unhandled, effects, client, hits,
                   xRequestId, published, adapterCalls, results>>
    /\ UNCHANGED connVars
    /\ UNCHANGED mqVars

\* The answer of the 404 handler, app.js:161-163.
NotFoundResponse == [status |-> 404, body |-> [message |-> "Ruta no encontrada"]]

\* app.js:149-163 for a request the router does not match: errorHandler
\* is skipped (there is no error), the 404 handler answers.
notFound(r) ==
    /\ Alive
    /\ pc[r] = "route"
    /\ req[r][1].route # "POST /"
    /\ Ran(r, {"router", "notFound"})
    /\ Sent(r, NotFoundResponse)
    /\ pc' = [pc EXCEPT ![r] = "finishing"]
    /\ UNCHANGED log
    /\ UNCHANGED connVars
    /\ UNCHANGED errVars
    /\ UNCHANGED mqVars
    /\ UNCHANGED reqVars

\* The controller without its sendToQueue call.
chatWithoutPublish(r, queued) ==
    /\ Alive
    /\ pc[r] = "route"
    /\ req[r][1].route = "POST /"
    /\ Ran(r, {"router", "chat"})
    /\ Logged(r, <<Entry("info", "Received chat request"),
                   Entry("info", "Calling Ollama service")>>)
    /\ adapterCalls' = [adapterCalls EXCEPT ![r] =
           Append(@, [prompt |-> req[r][1].body.prompt[1], requestId |-> r])]
    /\ pc' = [pc EXCEPT ![r] = "chat"]
    /\ UNCHANGED <<err, published>>
    /\ UNCHANGED <<resp, fired, audit, errorAudits, unhandled, effects, req,
                   validatedPrompt, client, hits, xRequestId, results>>
    /\ UNCHANGED connVars
    /\ UNCHANGED mqVars

\* ollama.controller.js:107-149 up to the await of chatOllama.  The
\* request passed initRabbitMQ, so req.rabbitChannel is set.  sendToQueue
\* either queues the message or throws; a throw rejects the promise of the
\* async function and asyncErrorHandler (utils.js:113) passes it to next.
chat(r, queued) ==
    /\ Alive
    /\ pc[r] = "route"
    /\ req[r][1].route = "POST /"
    /\ Ran(r, {"router", "chat"})
    /\ IF queued
       THEN /\ published' = [published EXCEPT ![r] = @ + 1]
            /\ Logged(r, <<Entry("info", "Received chat request"),
                           Entry("info", "Calling Ollama service")>>)
            /\ adapterCalls' = [adapterCalls EXCEPT ![r] =
                   Append(@, [prompt |-> req[r][1].body.prompt[1], requestId |-> r])]
            /\ pc' = [pc EXCEPT ![r] = "chat"]
            /\ UNCHANGED err
       ELSE /\ err' = [err EXCEPT ![r] = <<ChannelClosedError>>]
            /\ pc' = [pc EXCEPT ![r] = "error"]
            /\ UNCHANGED <<published, log, adapterCalls>>
    /\ UNCHANGED <<resp, fired, audit, errorAudits, unhandled, effects, req,
                   validatedPrompt, client, hits, xRequestId, results>>
    /\ UNCHANGED connVars
    /\ UNCHANGED mqVars

\* The controller sending the adapter's result as a quoted string.
chatResolvesQuoted(r, content) ==
    /\ Alive
    /\ pc[r] = "chat"
    /\ results' = [results EXCEPT ![r] = Append(@, content)]
    /\ Logged(r, <<Entry("info", "Ollama service response received"),
                   Entry("info", "Sending chat response")>>)
    /\ Sent(r, [status |-> 200, body |-> "\"" \o content \o "\""])
    /\ pc' = [pc EXCEPT ![r] = "finishing"]
    /\ UNCHANGED stages
    /\ UNCHANGED connVars
    /\ UNCHANGED errVars
    /\ UNCHANGED mqVars
    /\ UNCHANGED <<req, validatedPrompt, client, hits, xRequestId, published,
                   adapterCalls>>

\* ollama.controller.js:149-162 and unnamed/part_014:99-117: the call of
\* the inference adapter resolved, its content is the body of the 200.
chatResolves(r, content) ==
    /\ Alive
    /\ pc[r] = "chat"
    /\ results' = [results EXCEPT ![r] = Append(@, content)]
    /\ Logged(r, <<Entry("info", "Ollama service response received"),
                   Entry("info", "Sending chat response")>>)
    /\ Sent(r, [status |-> 200, body |-> content])
    /\ pc' = [pc EXCEPT ![r] = "finishing"]
    /\ UNCHANGED stages
    /\ UNCHANGED connVars
    /\ UNCHANGED errVars
    /\ UNCHANGED mqVars
    /\ UNCHANGED <<req, validatedPrompt, client, hits, xRequestId, published,
                   adapterCalls>>

\* The controller answering a rejection of the adapter itself.
chatRejectsAnswers(r, e) ==
    /\ Alive
    /\ pc[r] = "chat"
    /\ Sent(r, [status |-> 500, body |-> [error |-> e.message]])
    /\ pc' = [pc EXCEPT ![r] = "finishing"]
    /\ UNCHANGED <<stages, log>>
    /\ UNCHANGED errVars
    /\ UNCHANGED connVars
    /\ UNCHANGED mqVars
    /\ UNCHANGED reqVars

\* utils.js:113: the call of the inference adapter rejected.
chatRejects(r, e) ==
    /\ Alive
    /\ pc[r] = "chat"
    /\ err' = [err EXCEPT ![r] = <<e>>]
    /\ pc' = [pc EXCEPT ![r] = "error"]
    /\ UNCHANGED <<resp, stages, log, fired, audit, errorAudits, unhandled,
                   effects>>
    /\ UNCHANGED connVars
    /\ UNCHANGED mqVars
    /\ UNCHANGED reqVars

(* ---------------------------- errorHandler ----------------------------- *)

\* The status of the answer without the error's own status code.
StatusOfAlways500(e) == 500

\* errors.js:148-151, the destructuring defaults.
StatusOf(e) == IF e.statusCode = <<>> THEN 500 ELSE e.statusCode[1]

MessageOf(e) ==
    IF e.message = <<>> THEN "An unexpected error occurred" ELSE e.message[1]

\* A template literal prints an absent property as "undefined".
Interpolated(v) == IF v = <<>> THEN "undefined" ELSE v[1]

\* Array.prototype.join('.') of errors.js:239.
RECURSIVE JoinPath(_)
JoinPath(path) ==
    IF path = <<>> THEN ""
    ELSE IF Len(path) = 1 THEN path[1]
    ELSE path[1] \o "." \o JoinPath(Tail(path))

\* The pairs with the first two exchanged.
errorHandlersRefusedFirst == <<"unavailable", "validation", "fallback">>

\* errors.js:210-316: the (condition, handler) pairs in insertion order.
errorHandlers == <<"validation", "unavailable", "fallback">>

\* The conditions with the refused connection looked up on the error
\* itself (err.code) instead of on its cause: no error has that property.
ConditionOnOwnCode(h, e) ==
    CASE h = "validation" -> e.name = "ZodError"
      [] h = "unavailable" -> FALSE
      [] h = "fallback" -> TRUE

Condition(h, e) ==
    CASE h = "validation" -> e.name = "ZodError"                \* errors.js:224
      [] h = "unavailable" -> e.cause = <<"ECONNREFUSED">>      \* errors.js:265
      [] h = "fallback" -> TRUE                                 \* errors.js:297

Handler(h, e) ==
    CASE h = "validation" ->                                    \* errors.js:237-249
            [status |-> 400,
             body |-> [status |-> "error",
                       error |-> "Invalid request body",
                       details |-> [i \in 1..Len(e.issues) |->
                                      [field |-> JoinPath(e.issues[i].path),
                                       message |-> e.issues[i].message]]]]
      [] h = "unavailable" ->                                   \* errors.js:277-282
            [status |-> 503,
             body |-> [status |-> "error",
                       error |-> "Ollama, Service Unavailable: " \o Interpolated(e.message)]]
      [] h = "fallback" ->                                      \* errors.js:309-314
            [status |-> StatusOf(e),
             body |-> [status |-> "error", error |-> MessageOf(e)]]

\* errors.js:321-322: Array.find, the first pair whose condition holds.
MatchedHandler(e) ==
    LET matching == {i \in 1..Len(errorHandlers) : Condition(errorHandlers[i], e)}
    IN  errorHandlers[CHOOSE i \in matching : \A j \in matching : i <= j]

\* errors.js:172-189: the log entry of the error.
ErrorLogEntry(e) ==
    IF StatusOf(e) >= 500
    THEN [level |-> "error", msg |-> "Application error", stack |-> TRUE]
    ELSE [level |-> "warn", msg |-> "Operational error", stack |-> FALSE]

\* The statements of errorHandler with the response sent first.
errorHandlerStepsRespondFirst == <<"respond", "auditError", "log">>

\* errors.js:156-329, the statements of errorHandler in program order:
\* the call of auditError (156), the logger call (172-189), the matched
\* handler's response (321-329).
errorHandlerSteps == <<"auditError", "log", "respond">>

\* errorHandler without its auditError call.
errorHandlerWithoutAudit(r) ==
    /\ Alive
    /\ pc[r] = "error"
    /\ effects' = [effects EXCEPT ![r] = @ \o <<"log", "respond">>]
    /\ Logged(r, <<ErrorLogEntry(err[r][1])>>)
    /\ fired' = [fired EXCEPT ![r] = Append(@, MatchedHandler(err[r][1]))]
    /\ Sent(r, Handler(MatchedHandler(err[r][1]), err[r][1]))
    /\ Ran(r, {"errorHandler"})
    /\ pc' = [pc EXCEPT ![r] = "finishing"]
    /\ UNCHANGED <<err, audit, errorAudits, unhandled>>
    /\ UNCHANGED connVars
    /\ UNCHANGED mqVars
    /\ UNCHANGED reqVars

\* errors.js:147-329.  auditError is called first and runs up to its
\* await (errorAudit.service.js:12-34), the error is logged, the matched
\* handler answers.
errorHandler(r) ==
    /\ Alive
    /\ pc[r] = "error"
    /\ effects' = [effects EXCEPT ![r] = @ \o errorHandlerSteps]
    /\ audit' = [audit EXCEPT ![r] = "pending"]
    /\ Logged(r, <<ErrorLogEntry(err[r][1])>>)
    /\ fired' = [fired EXCEPT ![r] = Append(@, MatchedHandler(err[r][1]))]
    /\ Sent(r, Handler(MatchedHandler(err[r][1]), err[r][1]))
    /\ Ran(r, {"errorHandler"})
    /\ pc' = [pc EXCEPT ![r] = "finishing"]
    /\ UNCHANGED <<err, errorAudits, unhandled>>
    /\ UNCHANGED connVars
    /\ UNCHANGED mqVars
    /\ UNCHANGED reqVars

AuditOutcomes == {"saved", "rejected", "threw"}

AuditFailureEntries ==
    << [level |-> "error", msg |-> "Failed to audit error <requestId>:", stack |-> FALSE],
       [level |-> "error", msg |-> "Failed to audit error", stack |-> FALSE] >>

\* The auditError promise without a catch callback.
AuditRejectionUnhandled(r) ==
    /\ Logged(r, <<AuditFailureEntries[1]>>)
    /\ unhandled' = unhandled \cup {r}
    /\ UNCHANGED <<resp, pc>>

\* errors.js:160-167, the catch callback attached to the auditError
\* promise: the rejection is logged and goes no further.
AuditRejectionHandled(r) ==
    /\ Logged(r, AuditFailureEntries)
    /\ UNCHANGED <<unhandled, resp, pc>>

\* errorAudit.service.js:14-40 after errorHandler returned: the document
\* is saved, or save() rejects, or building the document threw; both
\* failures are logged and rethrown by the service.
AuditSettles(r, outcome) ==
    /\ Alive
    /\ audit[r] = "pending"
    /\ audit' = [audit EXCEPT ![r] = outcome]
    /\ IF outcome = "saved"
       THEN /\ errorAudits' = [errorAudits EXCEPT ![r] = @ + 1]
            /\ UNCHANGED <<log, unhandled, resp, pc>>
       ELSE /\ AuditRejectionHandled(r)
            /\ UNCHANGED errorAudits
    /\ UNCHANGED <<err, fired, effects, stages>>
    /\ UNCHANGED connVars
    /\ UNCHANGED mqVars
    /\ UNCHANGED reqVars

(* --------------------------- specification ----------------------------- *)

Init ==
    /\ isConnected = FALSE
    /\ retryCount = 0
    /\ pc \in {f \in [Procs -> {"new", "boot", "serving"}] :
                 /\ f[Server] \in {"boot", "serving"}
                 /\ \A r \in Reqs : f[r] = "new"}
    /\ attempts = [p \in Procs |-> 0]
    /\ resp = [r \in Reqs |-> <<>>]
    /\ stages = [r \in Reqs |-> {}]
    /\ log = [r \in Reqs |-> <<>>]
    /\ err = [r \in Reqs |-> <<>>]
    /\ fired = [r \in Reqs |-> <<>>]
    /\ audit = [r \in Reqs |-> "none"]
    /\ errorAudits = [r \in Reqs |-> 0]
    /\ unhandled = {}
    /\ effects = [r \in Reqs |-> <<>>]
    /\ req = [r \in Reqs |-> <<>>]
    /\ validatedPrompt = [r \in Reqs |-> <<>>]
    /\ channel = FALSE
    /\ queueAsserted = FALSE
    /\ client = [r \in Reqs |-> "10.0.0.1"]
    /\ hits \in {[c \in Clients |-> 0],
                 [c \in Clients |-> IF c = "10.0.0.1" THEN RATE_MAX - 1 ELSE 0]}
    /\ xRequestId = [r \in Reqs |-> <<>>]
    /\ published = [r \in Reqs |-> 0]
    /\ adapterCalls = [r \in Reqs |-> <<>>]
    /\ results = [r \in Reqs |-> <<>>]

Next ==
    \/ startServer
    \/ \E p \in Procs : ConnectSucceeds(p)
    \/ \E p \in Procs : ConnectFails(p)
    \/ \E p \in Procs : RetryDelayElapsed(p)
    \/ LossSignal
    \/ \E closed \in BOOLEAN : disconnectFromDatabase(closed)
    \/ \E r \in Reqs : traceabilityMiddleware(r)
    \/ \E r \in Reqs : databaseConnectionMiddleware(r)
    \/ \E r \in Reqs : \E parsed \in BOOLEAN : expressJson(r, parsed)
    \/ \E r \in Reqs : initRabbitMQ(r)
    \/ \E r \in Reqs : \E ok \in BOOLEAN : amqpConnectSettles(r, ok)
    \/ \E r \in Reqs : \E ok \in BOOLEAN : createChannelSettles(r, ok)
    \/ \E r \in Reqs : \E ok \in BOOLEAN : assertQueueSettles(r, ok)
    \/ \E r \in Reqs : rateLimiter(r)
    \/ \E r \in Reqs : \E route \in Routes : \E body \in Bodies :
          validatePrompt(r, route, body)
    \/ \E r \in Reqs : notFound(r)
    \/ \E r \in Reqs : \E queued \in BOOLEAN : chat(r, queued)
    \/ \E r \in Reqs : \E content \in AdapterResults : chatResolves(r, content)
    \/ \E r \in Reqs : \E e \in AdapterErrors : chatRejects(r, e)
    \/ \E r \in Reqs : errorHandler(r)
    \/ \E r \in Reqs : \E outcome \in AuditOutcomes : AuditSettles(r, outcome)
    \/ \E r \in Reqs : Finish(r)

Spec == Init /\ [][Next]_vars

(* ------------------ errorHandler called on its own --------------------- *)

\* The error objects errorHandler is applied to: every combination of the
\* properties it reads.  A ZodError carries its issues.
ErrorInputs ==
    { Error("Error", cause, statusCode, message, <<>>) :
        cause \in {<<>>, <<"ECONNREFUSED">>, <<"ETIMEDOUT">>},
        statusCode \in {<<>>, <<404>>, <<503>>},
        message \in {<<>>, <<"boom">>} }
    \cup
    { Error("ZodError", cause, statusCode, message, issues) :
        cause \in {<<>>, <<"ECONNREFUSED">>, <<"ETIMEDOUT">>},
        statusCode \in {<<>>, <<404>>, <<503>>},
        message \in {<<>>, <<"boom">>},
        issues \in {<<Issue(<<"prompt">>, "Required")>>,
                    <<Issue(<<"prompt">>, "too small"),
                      Issue(<<"options", "model">>, "Required")>>} }

\* errorHandler(error, request, response, next) called directly, as
\* tests/unit/errors.test.js does, for the first request.
DispatchInit ==
    /\ isConnected = TRUE
    /\ retryCount = 0
    /\ pc = [p \in Procs |-> IF p = Server THEN "serving"
                             ELSE IF p = 1 THEN "error" ELSE "new"]
    /\ attempts = [p \in Procs |-> 0]
    /\ resp = [r \in Reqs |-> <<>>]
    /\ stages = [r \in Reqs |-> {}]
    /\ log = [r \in Reqs |-> <<>>]
    /\ err \in {f \in [Reqs -> {<<>>} \cup {<<e>> : e \in ErrorInputs}] :
                  /\ f[1] # <<>>
                  /\ \A r \in Reqs \ {1} : f[r] = <<>>}
    /\ fired = [r \in Reqs |-> <<>>]
    /\ audit = [r \in Reqs |-> "none"]
    /\ errorAudits = [r \in Reqs |-> 0]
    /\ unhandled = {}
    /\ effects = [r \in Reqs |-> <<>>]
    /\ req = [r \in Reqs |-> <<>>]
    /\ validatedPrompt = [r \in Reqs |-> <<>>]
    /\ channel = FALSE
    /\ queueAsserted = FALSE
    /\ hits = [c \in Clients |-> 0]
    /\ client = [r \in Reqs |-> "10.0.0.1"]
    /\ xRequestId = [r \in Reqs |-> <<>>]
    /\ published = [r \in Reqs |-> 0]
    /\ adapterCalls = [r \in Reqs |-> <<>>]
    /\ results = [r \in Reqs |-> <<>>]

DispatchNext ==
    \/ \E r \in Reqs : errorHandler(r)
    \/ \E r \in Reqs : \E outcome \in AuditOutcomes : AuditSettles(r, outcome)
    \/ \E r \in Reqs : Finish(r)

DispatchSpec == DispatchInit /\ [][DispatchNext]_vars

(* ------------------------- CustomError on its own ---------------------- *)

\* errors.js:100-107: what the constructor of CustomError sets.  name is
\* the one inherited from Error.
CustomError(message, statusCode) ==
    [name |-> "Error",
     message |-> message,
     statusCode |-> statusCode,
     status |-> IF statusCode >= 404 /\ statusCode < 500 THEN "fail" ELSE "error",
     isOperational |-> TRUE]

\* The arguments new CustomError is called with: messages of the examples
\* and status codes at and around the limits of the 4xx and 5xx ranges.
CustomErrorInputs ==
    { [message |-> m, statusCode |-> c] :
        m \in {"Not Found", "Internal Server Error"},
        c \in {399, 400, 401, 403, 404, 405, 499, 500, 503} }

\* Every caller is about to run new CustomError(message, statusCode) on
\* arguments of its own; req holds the arguments.
CustomErrorInit ==
    /\ isConnected = TRUE
    /\ retryCount = 0
    /\ pc = [p \in Procs |-> IF p = Server THEN "serving" ELSE "construct"]
    /\ attempts = [p \in Procs |-> 0]
    /\ resp = [r \in Reqs |-> <<>>]
    /\ stages = [r \in Reqs |-> {}]
    /\ log = [r \in Reqs |-> <<>>]
    /\ err = [r \in Reqs |-> <<>>]
    /\ fired = [r \in Reqs |-> <<>>]
    /\ audit = [r \in Reqs |-> "none"]
    /\ errorAudits = [r \in Reqs |-> 0]
    /\ unhandled = {}
    /\ effects = [r \in Reqs |-> <<>>]
    /\ req \in [Reqs -> {<<a>> : a \in CustomErrorInputs}]
    /\ validatedPrompt = [r \in Reqs |-> <<>>]
    /\ channel = FALSE
    /\ queueAsserted = FALSE
    /\ hits = [c \in Clients |-> 0]
    /\ client = [r \in Reqs |-> "10.0.0.1"]
    /\ xRequestId = [r \in Reqs |-> <<>>]
    /\ published = [r \in Reqs |-> 0]
    /\ adapterCalls = [r \in Reqs |-> <<>>]
    /\ results = [r \in Reqs |-> <<>>]

\* new CustomError(message, statusCode), tests/unit/errors.test.js:38,49;
\* err holds the object that was built.
newCustomError(r) ==
    /\ pc[r] = "construct"
    /\ err' = [err EXCEPT ![r] =
                 <<CustomError(req[r][1].message, req[r][1].statusCode)>>]
    /\ pc' = [pc EXCEPT ![r] = "done"]
    /\ UNCHANGED <<resp, stages, log>>
    /\ UNCHANGED connVars
    /\ UNCHANGED <<fired, audit, errorAudits, unhandled, effects>>
    /\ UNCHANGED mqVars
    /\ UNCHANGED reqVars

CustomErrorNext == \E r \in Reqs : newCustomError(r)

CustomErrorSpec == CustomErrorInit /\ [][CustomErrorNext]_vars

(* ------------------- requests arriving at the limiter ------------------ *)

\* Every request has passed the stages ahead of the rate limiter
\* (app.js:106-143) and stands at app.js:149; the clients may have been
\* counted in their running window already.
RateInit ==
    /\ isConnected = TRUE
    /\ retryCount = 0
    /\ pc = [p \in Procs |-> IF p = Server THEN "serving" ELSE "rate"]
    /\ attempts = [p \in Procs |-> 0]
    /\ resp = [r \in Reqs |-> <<>>]
    /\ stages = [r \in Reqs |-> {"traceability", "gate", "gate-next",
                                  "requestLogger", "cors", "json", "initRabbitMQ"}]
    /\ log = [r \in Reqs |-> <<StartEvent>>]
    /\ err = [r \in Reqs |-> <<>>]
    /\ fired = [r \in Reqs |-> <<>>]
    /\ audit = [r \in Reqs |-> "none"]
    /\ errorAudits = [r \in Reqs |-> 0]
    /\ unhandled = {}
    /\ effects = [r \in Reqs |-> <<>>]
    /\ req = [r \in Reqs |-> <<>>]
    /\ validatedPrompt = [r \in Reqs |-> <<>>]
    /\ channel = TRUE
    /\ queueAsserted = TRUE
    /\ client \in [Reqs -> Clients]
    /\ hits \in [Clients -> {0, RATE_MAX - 1, RATE_MAX}]
    /\ xRequestId = [r \in Reqs |-> <<r>>]
    /\ published = [r \in Reqs |-> 0]
    /\ adapterCalls = [r \in Reqs |-> <<>>]
    /\ results = [r \in Reqs |-> <<>>]

\* The limiter, the expiry of its windows, and the stages a request it
\* lets through runs up to the call of the inference adapter.
RateNext ==
    \/ \E r \in Reqs : rateLimiter(r)
    \/ \E c \in Clients : WindowElapsed(c)
    \/ \E r \in Reqs : \E route \in Routes : \E body \in Bodies :
          validatePrompt(r, route, body)
    \/ \E r \in Reqs : \E queued \in BOOLEAN : chat(r, queued)
    \/ \E r \in Reqs : Finish(r)

RateSpec == RateInit /\ [][RateNext]_vars

(* ------------------- the store stays unreachable ----------------------- *)

\* The store cannot be reached from the start on: the state is
\* Disconnected, and retryCount is what earlier failures have left (0 when
\* start-up has not called connectToDatabase yet).
UnreachableInit ==
    /\ isConnected = FALSE
    /\ pc \in {f \in [Procs -> {"new", "boot", "serving"}] :
                 /\ f[Server] \in {"boot", "serving"}
                 /\ \A r \in Reqs : f[r] = "new"}
    /\ retryCount \in {n \in 0..MAX_RETRIES : pc[Server] = "boot" => n = 0}
    /\ attempts = [p \in Procs |-> 0]
    /\ resp = [r \in Reqs |-> <<>>]
    /\ stages = [r \in Reqs |-> {}]
    /\ log = [r \in Reqs |-> <<>>]
    /\ err = [r \in Reqs |-> <<>>]
    /\ fired = [r \in Reqs |-> <<>>]
    /\ audit = [r \in Reqs |-> "none"]
    /\ errorAudits = [r \in Reqs |-> 0]
    /\ unhandled = {}
    /\ effects = [r \in Reqs |-> <<>>]
    /\ req = [r \in Reqs |-> <<>>]
    /\ validatedPrompt = [r \in Reqs |-> <<>>]
    /\ channel = FALSE
    /\ queueAsserted = FALSE
    /\ client = [r \in Reqs |-> "10.0.0.1"]
    /\ hits = [c \in Clients |-> 0]
    /\ xRequestId = [r \in Reqs |-> <<>>]
    /\ published = [r \in Reqs |-> 0]
    /\ adapterCalls = [r \in Reqs |-> <<>>]
    /\ results = [r \in Reqs |-> <<>>]

\* The steps the program can take while every mongoose.connect call
\* rejects.
UnreachableNext ==
    \/ startServer
    \/ \E p \in Procs : ConnectFails(p)
    \/ \E p \in Procs : RetryDelayElapsed(p)
    \/ \E r \in Reqs : traceabilityMiddleware(r)
    \/ \E r \in Reqs : databaseConnectionMiddleware(r)
    \/ \E r \in Reqs : Finish(r)

\* The event loop runs every callback that is ready: the middleware of a
\* request that arrived, the rejection of an awaited mongoose.connect
\* (serverSelectionTimeoutMS, mongoDriver.js:222), the timer of the retry
\* delay (mongoDriver.js:250), the 'finish' listeners of a response.
UnreachableFairness ==
    /\ \A p \in Procs : WF_vars(ConnectFails(p))
    /\ \A p \in Procs : WF_vars(RetryDelayElapsed(p))
    /\ \A r \in Reqs : WF_vars(databaseConnectionMiddleware(r))
    /\ \A r \in Reqs : WF_vars(Finish(r))

UnreachableSpec == UnreachableInit /\ [][UnreachableNext]_vars /\ UnreachableFairness

(* ------------------------------ properties ----------------------------- *)

\* The process's connectToDatabase call raised the fatal error.
Fatal(p) ==
    IF p = Server THEN pc[p] = "exited"
    ELSE pc[p] \in {"finishing", "done"} /\ resp[p] = <<GateErrorResponse>>

\* No other request has arrived: the call of p ran alone, from
\* Disconnected and retryCount = 0.
Alone(p) == \A q \in Reqs \ {p} : pc[q] = "new"

\* A step that starts a mongoose.connect call.
AttemptStarted == \E q \in Procs : pc[q] # "connecting" /\ pc'[q] = "connecting"

\* A step in which ensureConnected runs from its start: the gate
\* middleware, a call of connectToDatabase by startServer, the recursive
\* call after the retry delay.
EnsureStep(p) == pc[p] \in {"gate", "boot", "delay"} /\ pc'[p] # pc[p]

\* C1: a connectToDatabase call that starts from Disconnected with
\* retryCount = 0, runs alone and sees every attempt fail has made exactly
\* MAX_RETRIES attempts when it raises the fatal error.
C1_FatalAfterMaxRetriesAttempts ==
    \A p \in Procs : Fatal(p) /\ Alone(p) => attempts[p] = MAX_RETRIES

\* C2: while Connected, a run of ensureConnected (gate middleware or
\* connectToDatabase) starts no connection attempt and leaves isConnected
\* and retryCount as they are.
C2_ConnectedIsIdempotent ==
    [][\A p \in Procs :
         isConnected /\ EnsureStep(p) =>
            /\ ~AttemptStarted
            /\ pc'[p] = ReturnPc(p)
            /\ isConnected' = isConnected
            /\ retryCount' = retryCount]_vars

\* A request went through the gate without a single connection attempt.
C2_Witness ==
    \E r \in Reqs : pc[r] = "body" /\ attempts[r] = 0 /\ isConnected

\* C3: retryCount stays within 0..MAX_RETRIES in every reachable state.
C3_RetryCountInRange == retryCount \in 0..MAX_RETRIES

\* The retries are used up and two requests are inside connectToDatabase.
C3_Witness ==
    /\ retryCount = MAX_RETRIES
    /\ \E r \in Reqs : Fatal(r)
    /\ \E r \in Reqs : pc[r] \in {"connecting", "delay"}

\* C4: a request for which ensureConnected raised the fatal error is
\* answered 500 by the gate, once, and no later stage ever runs for it.
C4_FatalShortCircuits ==
    \A r \in Reqs :
        /\ (pc[r] \in {"finishing", "done"} /\ "gate-next" \notin stages[r]) =>
              /\ Len(resp[r]) = 1
              /\ resp[r][1].status = 500
              /\ resp[r][1] = GateErrorResponse
        /\ (\E i \in 1..Len(resp[r]) : resp[r][i] = GateErrorResponse) =>
              /\ pc[r] \in {"finishing", "done"}
              /\ stages[r] = {"traceability", "gate"}
              /\ Len(resp[r]) = 1
              /\ err[r] = <<>>
              /\ audit[r] = "none"
              /\ adapterCalls[r] = <<>>
              /\ published[r] = 0

\* A request answered by the gate has finished while another one is being
\* served behind the gate.
C4_Witness ==
    \E r, q \in Reqs :
        /\ pc[r] = "done" /\ Fatal(r)
        /\ pc[q] \in {"validate", "route", "chat"}

\* C5: a request that reaches the gate while Disconnected (after a loss
\* signal, after a fatal error) starts a connection attempt whatever
\* retryCount is; when an attempt of a request succeeds the request passes
\* the gate, the state is Connected with retryCount = 0 and the process
\* is still the same.
C5_RecoversPerRequest ==
    [][\A r \in Reqs :
         /\ (pc[r] = "gate" /\ pc'[r] # "gate" /\ ~isConnected) =>
               /\ pc'[r] = "connecting"
               /\ attempts'[r] = 1
         /\ (pc[r] = "connecting" /\ pc'[r] \notin {"connecting", "delay", "finishing"}) =>
               /\ pc'[r] = "body"
               /\ "gate-next" \in stages'[r]
               /\ resp'[r] = <<>>
               /\ isConnected'
               /\ retryCount' = 0
               /\ Alive']_vars

\* After a fatal error answered to one request, another request has passed
\* the gate on its first attempt and the counter is back to 0.
C5_Witness ==
    \E r, q \in Reqs :
        /\ Fatal(r)
        /\ pc[q] = "body" /\ attempts[q] = 1
        /\ isConnected /\ retryCount = 0

\* C6 as stated: once a request has been answered with the fatal error, a
\* request arriving at the gate triggers no new connection attempt.
C6_NoAttemptAfterFatal ==
    [][(\E p \in Reqs : Fatal(p)) =>
          ~(\E r \in Reqs : pc[r] = "gate" /\ pc'[r] = "connecting")]_vars

\* C6 amended: the fatal error ends the call that raised it, that process
\* starts no further attempt; the manager does not latch, so a request that
\* arrives at the gate while Disconnected starts a new attempt even with the
\* retries used up.
C6_FatalEndsTheCallOnly ==
    [][/\ \A p \in Procs : Fatal(p) => ~(pc'[p] \in {"connecting", "delay"})
       /\ \A r \in Reqs :
            (pc[r] = "gate" /\ pc'[r] # "gate" /\ ~isConnected
                /\ retryCount = MAX_RETRIES /\ \E p \in Reqs : Fatal(p))
            => pc'[r] = "connecting"]_vars

\* With the retries used up and a request already answered 500, another
\* request has a connection attempt in flight.
C6_Witness ==
    \E r, q \in Reqs :
        /\ Fatal(r)
        /\ pc[q] = "connecting" /\ attempts[q] = 1
        /\ retryCount = MAX_RETRIES

\* C7: retryCount goes back to 0 in every step that makes the state
\* Connected, and it decreases in no other step: not on a failed attempt,
\* a loss signal, an explicit disconnect or the fatal error.
C7_ResetExactlyOnConnected ==
    [][/\ (\E p \in Procs : pc[p] = "connecting" /\ pc'[p] = ReturnPc(p))
            => (isConnected' /\ retryCount' = 0)
       /\ (~isConnected /\ isConnected') => retryCount' = 0
       /\ (retryCount' < retryCount) =>
            /\ retryCount' = 0
            /\ isConnected'
            /\ \E p \in Procs : pc[p] = "connecting" /\ pc'[p] = ReturnPc(p)]_vars

\* A request connected on its last retry, which reset the counter; the
\* connection was lost again after that.
C7_Witness ==
    \E r \in Reqs :
        /\ pc[r] = "body" /\ attempts[r] = MAX_RETRIES + 1
        /\ retryCount = 0
        /\ ~isConnected

\* The responder the ordered evaluation selects for an error.
ExpectedResponder(e) ==
    IF e.name = "ZodError" THEN "validation"
    ELSE IF e.cause = <<"ECONNREFUSED">> THEN "unavailable"
    ELSE "fallback"

\* errorHandler has run for the request.
Dispatched(r) == "errorHandler" \in stages[r]

\* C8: for every error reaching errorHandler exactly one responder fires,
\* the first in the order validation, connection-refused, fallback whose
\* predicate holds, and exactly one response is sent; a validation failure
\* with a connection-refused cause gets the 400 of the validation responder.
C8_FirstMatchWins ==
    \A r \in Reqs : Dispatched(r) =>
        /\ fired[r] = <<ExpectedResponder(err[r][1])>>
        /\ Len(resp[r]) = 1
        /\ resp[r][1].status =
              (CASE fired[r][1] = "validation" -> 400
                 [] fired[r][1] = "unavailable" -> 503
                 [] fired[r][1] = "fallback" -> StatusOf(err[r][1]))
        /\ ("details" \in DOMAIN resp[r][1].body) = (err[r][1].name = "ZodError")
        /\ (err[r][1].name = "ZodError" /\ err[r][1].cause = <<"ECONNREFUSED">>)
              => resp[r][1].status = 400

\* A validation failure that also carries a connection-refused cause has
\* been answered.
C8_Witness ==
    \E r \in Reqs :
        /\ Dispatched(r)
        /\ err[r][1].name = "ZodError"
        /\ err[r][1].cause = <<"ECONNREFUSED">>
        /\ resp[r][1].status = 400

\* C9 as stated: every error whose cause carries ECONNREFUSED is answered
\* 503 with 'Service Unavailable' and the error's message, whatever its
\* name and statusCode.
C9_RefusedAlways503 ==
    \A r \in Reqs :
        (Dispatched(r) /\ err[r][1].cause = <<"ECONNREFUSED">>) =>
            /\ resp[r][1].status = 503
            /\ resp[r][1].body.error =
                  "Ollama, Service Unavailable: " \o Interpolated(err[r][1].message)

\* C9 amended: every error whose cause carries ECONNREFUSED and whose name
\* is not 'ZodError' is answered 503 with 'Service Unavailable' and the
\* error's message, whatever its statusCode; one named 'ZodError' is
\* answered 400 by the validation responder.
C9_RefusedNonValidation503 ==
    \A r \in Reqs :
        (Dispatched(r) /\ err[r][1].cause = <<"ECONNREFUSED">>) =>
            IF err[r][1].name # "ZodError"
            THEN /\ resp[r] = <<[status |-> 503,
                                 body |-> [status |-> "error",
                                           error |-> "Ollama, Service Unavailable: "
                                                 \o Interpolated(err[r][1].message)]]>>
            ELSE resp[r][1].status = 400

\* A refused connection that carries a status code of its own has been
\* answered 503.
C9_Witness ==
    \E r \in Reqs :
        /\ Dispatched(r)
        /\ err[r][1].cause = <<"ECONNREFUSED">>
        /\ err[r][1].statusCode = <<404>>
        /\ err[r][1].name = "Error"
        /\ resp[r][1].status = 503

\* C10: when the error-audit write settles, by success, rejection or
\* throw, the one response errorHandler sent is already out and stays as
\* it is; a failure is logged, sends nothing and leaves no unhandled
\* rejection.
C10_AuditIsolated ==
    [][\A r \in Reqs :
         (audit[r] = "pending" /\ audit'[r] # "pending") =>
            /\ Len(resp[r]) = 1
            /\ resp'[r] = resp[r]
            /\ resp[r][1] = Handler(ExpectedResponder(err[r][1]), err[r][1])
            /\ pc'[r] = pc[r]
            /\ unhandled' = {}
            /\ (audit'[r] # "saved") =>
                  /\ log'[r] = log[r] \o AuditFailureEntries
                  /\ errorAudits'[r] = errorAudits[r]]_vars

\* The audit write of an answered error failed.
C10_Witness ==
    \E r \in Reqs :
        /\ audit[r] \in {"rejected", "threw"}
        /\ Len(resp[r]) = 1
        /\ resp[r][1].status = 503
        /\ errorAudits[r] = 0

\* How often x occurs in a sequence, and where it occurs first.
Occurrences(seq, x) == Cardinality({i \in 1..Len(seq) : seq[i] = x})

Position(seq, x) == CHOOSE i \in 1..Len(seq) : seq[i] = x /\ \A j \in 1..(i - 1) : seq[j] # x

\* The entries errorHandler writes for the error itself.
ErrorEntries(r) ==
    {i \in 1..Len(log[r]) : log[r][i].msg \in {"Application error", "Operational error"}}

\* C11: for every error reaching errorHandler the error is submitted to
\* auditError exactly once and logged exactly once, as an application
\* error or an operational warning, and the submission and the log entry
\* both come before the one response; a request without an error has
\* neither.
C11_AuditedAndLoggedOnceBeforeResponse ==
    \A r \in Reqs :
        IF Dispatched(r)
        THEN /\ Occurrences(effects[r], "auditError") = 1
             /\ Occurrences(effects[r], "log") = 1
             /\ Occurrences(effects[r], "respond") = 1
             /\ Position(effects[r], "auditError") < Position(effects[r], "respond")
             /\ Position(effects[r], "log") < Position(effects[r], "respond")
             /\ audit[r] # "none"
             /\ Cardinality(ErrorEntries(r)) = 1
             /\ \A i \in ErrorEntries(r) :
                   log[r][i].level = (IF StatusOf(err[r][1]) >= 500 THEN "error" ELSE "warn")
             /\ Len(resp[r]) = 1
        ELSE /\ effects[r] = <<>>
             /\ audit[r] = "none"
             /\ ErrorEntries(r) = {}

\* An error with a 4xx status code and one without status code have both
\* been dispatched, the first logged as a warning, the second as an error.
C11_Witness ==
    \E r, q \in Reqs :
        /\ Dispatched(r) /\ Dispatched(q)
        /\ StatusOf(err[r][1]) = 400 /\ StatusOf(err[q][1]) = 500
        /\ \E i \in ErrorEntries(r) : log[r][i].level = "warn"
        /\ \E i \in ErrorEntries(q) : log[q][i].level = "error"
        /\ audit[r] = "saved"

\* validatePrompt has looked at the request's body.
Validated(r) == "validatePrompt" \in stages[r]

\* The body of the request carries a string prompt.
HasText(r) == req[r] # <<>> /\ req[r][1].body.prompt # <<>>

\* The text the request sent as its prompt.
Sent_Prompt(r) == req[r][1].body.prompt[1]

\* The rules of the prompt a text violates: the lower and the upper
\* length bound, not being blank.
ViolatedRules(t) ==
    {rule \in {"min", "max", "blank"} :
        CASE rule = "min" -> t.len = 0
          [] rule = "max" -> t.len > 4096
          [] rule = "blank" -> t.trimLen = 0}

\* C12: a request whose prompt has length 0, has more than 4096
\* characters or is only whitespace gets no answer but the 400 'Invalid
\* request body', whose details hold one {field, message} entry per
\* violated rule, at least one of them for field 'prompt'.
C12_BadPromptGets400WithDetails ==
    \A r \in Reqs :
        (Validated(r) /\ HasText(r) /\ ViolatedRules(Sent_Prompt(r)) # {}) =>
            /\ Len(resp[r]) <= 1
            /\ (resp[r] = <<>>) = (pc[r] = "error")
            /\ resp[r] # <<>> =>
                  /\ resp[r][1].status = 400
                  /\ DOMAIN resp[r][1].body = {"status", "error", "details"}
                  /\ resp[r][1].body.status = "error"
                  /\ resp[r][1].body.error = "Invalid request body"
                  /\ Len(resp[r][1].body.details) =
                        Cardinality(ViolatedRules(Sent_Prompt(r)))
                  /\ \A i \in 1..Len(resp[r][1].body.details) :
                        DOMAIN resp[r][1].body.details[i] = {"field", "message"}
                  /\ \E i \in 1..Len(resp[r][1].body.details) :
                        resp[r][1].body.details[i].field = "prompt"

\* An empty prompt, which violates two rules, and a prompt of more than
\* 4096 characters have both been answered.
C12_Witness ==
    \E r, q \in Reqs :
        /\ Validated(r) /\ HasText(r) /\ Sent_Prompt(r).len = 0
        /\ Validated(q) /\ HasText(q) /\ Sent_Prompt(q).len > 4096
        /\ resp[r] # <<>> /\ Len(resp[r][1].body.details) = 2
        /\ resp[q] # <<>> /\ resp[q][1].status = 400

\* A prompt of spaces only has been answered.
C12_WitnessBlank ==
    \E r \in Reqs :
        /\ Validated(r) /\ HasText(r)
        /\ Sent_Prompt(r).len > 0 /\ Sent_Prompt(r).trimLen = 0
        /\ resp[r] # <<>> /\ resp[r][1].status = 400

\* promptSchema.parse threw for the request's body.
StructurallyRejected(r) == err[r] # <<>> /\ err[r][1].name = "ZodError"

\* C13 as stated: a string prompt passes the structural check exactly
\* when the length of its trimmed text is between 1 and 4096.
C13_AcceptsIffTrimmedLengthInRange ==
    \A r \in Reqs :
        (Validated(r) /\ HasText(r)) =>
            (~StructurallyRejected(r) <=> Sent_Prompt(r).trimLen \in 1..4096)

\* C13 amended: a string prompt passes the structural check exactly when
\* the length of the text as sent is between 1 and 4096 and its trimmed
\* text is not empty; the length bounds see the text before trim().
C13_AcceptsIffRawLengthInRangeAndNotBlank ==
    \A r \in Reqs :
        (Validated(r) /\ HasText(r)) =>
            (~StructurallyRejected(r) <=>
                (Sent_Prompt(r).len \in 1..4096 /\ Sent_Prompt(r).trimLen >= 1))

\* A prompt of more than 4096 characters whose trimmed text has at most
\* 4096 has been rejected, and a padded prompt within the bounds has
\* been accepted.
C13_Witness ==
    \E r, q \in Reqs :
        /\ Validated(r) /\ HasText(r) /\ StructurallyRejected(r)
        /\ Sent_Prompt(r).len > 4096 /\ Sent_Prompt(r).trimLen \in 1..4096
        /\ Validated(q) /\ HasText(q) /\ ~StructurallyRejected(q)
        /\ Sent_Prompt(q).len > Sent_Prompt(q).trimLen

\* The entries of the content filter in the request's log.
PatternEntries(r) ==
    {i \in 1..Len(log[r]) : log[r][i].msg = "Prompt contains forbidden pattern"}

\* The body of the request fails the structural check: the prompt is
\* missing, or its text violates a rule.
StructurallyInvalid(r) ==
    /\ req[r] # <<>>
    /\ \/ req[r][1].body.prompt = <<>>
       \/ ViolatedRules(Sent_Prompt(r)) # {}

\* C14: for a body that fails the structural check the content filter
\* does not run: no forbidden pattern is logged, the content rejection
\* is not sent, and the outcome is the validation error, also when the
\* text contains a forbidden phrase.
C14_StructureShortCircuitsFilter ==
    \A r \in Reqs :
        (Validated(r) /\ StructurallyInvalid(r)) =>
            /\ PatternEntries(r) = {}
            /\ \E i \in 1..Len(log[r]) : log[r][i].msg = "Prompt validation failed"
            /\ StructurallyRejected(r)
            /\ validatedPrompt[r] = <<>>
            /\ \A i \in 1..Len(resp[r]) : resp[r][i] # ContentRejectedResponse

\* A prompt that is too long and contains a forbidden phrase has been
\* answered by the validation responder.
C14_Witness ==
    \E r \in Reqs :
        /\ Validated(r) /\ HasText(r)
        /\ Sent_Prompt(r).len > 4096 /\ Sent_Prompt(r).pats # {}
        /\ resp[r] # <<>> /\ resp[r][1].status = 400
        /\ resp[r][1].body.error = "Invalid request body"

\* The body passes the structural check and its trimmed text matches a
\* forbidden pattern.
ContentRejected(r) ==
    /\ HasText(r)
    /\ ViolatedRules(Sent_Prompt(r)) = {}
    /\ Sent_Prompt(r).pats # {}

\* C15: for a prompt that matches forbidden patterns, several of them
\* included, exactly one rejection is logged, it names the matching
\* pattern that comes first in the list, and the response is the same
\* fixed one whichever patterns matched.
C15_FirstPatternLoggedOnce ==
    \A r \in Reqs :
        (Validated(r) /\ ContentRejected(r)) =>
            /\ Cardinality(PatternEntries(r)) = 1
            /\ \A i \in PatternEntries(r) :
                  /\ log[r][i].pattern \in Sent_Prompt(r).pats
                  /\ \A j \in Sent_Prompt(r).pats : log[r][i].pattern <= j
            /\ resp[r] = <<ContentRejectedResponse>>
            /\ \A q \in Reqs :
                  (Validated(q) /\ ContentRejected(q)) => resp[q] = resp[r]

\* Two requests were rejected, one matching one pattern, one matching
\* two others.
C15_Witness ==
    \E r, q \in Reqs :
        /\ Validated(r) /\ ContentRejected(r) /\ Cardinality(Sent_Prompt(r).pats) = 2
        /\ Validated(q) /\ ContentRejected(q) /\ Cardinality(Sent_Prompt(q).pats) = 1
        /\ Sent_Prompt(q).pats \cap Sent_Prompt(r).pats = {}
        /\ resp[r] # <<>> /\ resp[q] # <<>>

\* C16: a request whose prompt matches a forbidden pattern is answered by
\* validatePrompt with 400 and the fixed body {error, message}, once, and
\* goes no further: the router, the inference adapter, errorHandler and
\* the error audit are not invoked for it and nothing is published.
C16_RejectedAtGateNeverForwarded ==
    \A r \in Reqs :
        (Validated(r) /\ ContentRejected(r)) =>
            /\ resp[r] = <<[status |-> 400,
                            body |-> [error |-> "Contenido no permitido",
                                      message |-> "El prompt contiene patrones bloqueados por seguridad (jailbreak, etc.)."]]>>
            /\ stages[r] \cap {"router", "chat", "notFound", "errorHandler"} = {}
            /\ adapterCalls[r] = <<>>
            /\ published[r] = 0
            /\ err[r] = <<>> /\ fired[r] = <<>>
            /\ audit[r] = "none" /\ errorAudits[r] = 0
            /\ validatedPrompt[r] = <<>>
            /\ pc[r] \in {"finishing", "done"}

\* A rejected request has finished while another request was served by
\* the inference adapter.
C16_Witness ==
    \E r, q \in Reqs :
        /\ Validated(r) /\ ContentRejected(r) /\ pc[r] = "done"
        /\ adapterCalls[q] # <<>> /\ pc[q] = "done"

\* A step in which chatOllama is called for the request.
AdapterInvoked(r) == Len(adapterCalls'[r]) > Len(adapterCalls[r])

\* C19: the inference adapter is invoked for a request only after the
\* request got its id, passed the connection gate and passed both checks
\* of validatePrompt, and never for a request that has been answered.
C19_AdapterOnlyAfterGateAndValidation ==
    [][\A r \in Reqs :
         AdapterInvoked(r) =>
            /\ {"traceability", "gate-next", "validatePrompt"} \subseteq stages[r]
            /\ resp[r] = <<>>
            /\ err[r] = <<>>
            /\ HasText(r)
            /\ ViolatedRules(Sent_Prompt(r)) = {}
            /\ Sent_Prompt(r).pats = {}
            /\ validatedPrompt[r] # <<>>]_vars

\* The adapter has been invoked for one request while the other request
\* was answered before it reached validatePrompt.
C19_Witness ==
    \E r, q \in Reqs :
        /\ adapterCalls[r] # <<>>
        /\ adapterCalls[q] = <<>> /\ resp[q] # <<>>
        /\ "validatePrompt" \notin stages[q]

\* C17 as stated: errorHandler is not invoked for a request whose body
\* failed the structural check.
C17_StructuralFailureNeverDispatched ==
    \A r \in Reqs :
        (Validated(r) /\ StructurallyInvalid(r)) =>
            ~Dispatched(r) /\ fired[r] = <<>>

\* C17 amended: validatePrompt sends nothing for a body that fails the
\* structural check; it logs the failure and passes the error on, and
\* errorHandler answers it, once, through its validation responder.
C17_StructuralFailureDispatched ==
    \A r \in Reqs :
        (Validated(r) /\ StructurallyInvalid(r)) =>
            /\ StructurallyRejected(r)
            /\ IF pc[r] = "error"
               THEN resp[r] = <<>> /\ ~Dispatched(r)
               ELSE /\ Dispatched(r)
                    /\ fired[r] = <<"validation">>
                    /\ audit[r] # "none"
                    /\ Len(resp[r]) = 1
                    /\ resp[r][1].status = 400
                    /\ resp[r][1].body.error = "Invalid request body"

\* A request without prompt has been answered by errorHandler.
C17_Witness ==
    \E r \in Reqs :
        /\ Validated(r) /\ req[r][1].body.prompt = <<>>
        /\ Dispatched(r) /\ fired[r] = <<"validation">>
        /\ resp[r] # <<>>

\* The gate gave up connecting for the request.
DbExhausted(r) == "gate" \in stages[r] /\ "gate-next" \notin stages[r] /\ pc[r] \in {"finishing", "done"}

\* initRabbitMQ could not get its connection, channel or queue.
MqFailed(r) ==
    /\ "initRabbitMQ" \in stages[r]
    /\ "rateLimiter" \notin stages[r]
    /\ pc[r] \in {"finishing", "done"}

\* The controller ran and did not get to its 200: sendToQueue threw or
\* the adapter rejected.
ControllerFailed(r) ==
    /\ "chat" \in stages[r]
    /\ pc[r] # "chat"
    /\ ~(resp[r] # <<>> /\ resp[r][1].status = 200)

\* C18 as stated: backing-store exhaustion, message-queue failure and
\* inference failure are answered by errorHandler and by nothing else.
C18_FailuresAnsweredByDispatcherAlone ==
    \A r \in Reqs :
        ((DbExhausted(r) \/ MqFailed(r) \/ ControllerFailed(r)) /\ resp[r] # <<>>) =>
            /\ Dispatched(r)
            /\ Len(resp[r]) = 1

\* C18 amended: a failure of the controller is answered by errorHandler
\* alone; backing-store exhaustion is answered by the connection gate
\* and a failure of initRabbitMQ by initRabbitMQ, each with its own 500,
\* and neither reaches errorHandler.
C18_DispatcherAnswersControllerFailuresOnly ==
    \A r \in Reqs :
        /\ DbExhausted(r) =>
              resp[r] = <<GateErrorResponse>> /\ ~Dispatched(r) /\ audit[r] = "none"
        /\ MqFailed(r) =>
              resp[r] = <<MqErrorResponse>> /\ ~Dispatched(r) /\ audit[r] = "none"
        /\ ControllerFailed(r) =>
              IF pc[r] = "error"
              THEN resp[r] = <<>> /\ err[r] # <<>>
              ELSE /\ Dispatched(r)
                   /\ resp[r] = <<Handler(ExpectedResponder(err[r][1]), err[r][1])>>

\* One request was answered by initRabbitMQ, the other, whose adapter
\* call was refused, by errorHandler.
C18_Witness ==
    \E r, q \in Reqs :
        /\ MqFailed(r) /\ resp[r] # <<>>
        /\ ControllerFailed(q) /\ err[q][1].cause = <<"ECONNREFUSED">>
        /\ resp[q] # <<>> /\ resp[q][1].status = 503

\* The gate has answered a request after the retries ran out.
C18_WitnessGate == \E r \in Reqs : DbExhausted(r) /\ resp[r] # <<>>

\* C20: every prompt handed to chatOllama is req.validatedPrompt, the
\* trimmed text, and not the value of the request body.
C20_AdapterGetsValidatedPrompt ==
    \A r \in Reqs :
        \A i \in 1..Len(adapterCalls[r]) :
            /\ validatedPrompt[r] # <<>>
            /\ adapterCalls[r][i].prompt = validatedPrompt[r][1]

\* C21: when the inference adapter returns a result for a request, the
\* request is answered once, 200 with exactly that result as body, and
\* the adapter was called once, with the prompt of the request body and
\* the request's id.
C21_SuccessPassesResultThrough ==
    \A r \in Reqs :
        results[r] # <<>> =>
            /\ Len(results[r]) = 1
            /\ resp[r] = <<[status |-> 200, body |-> results[r][1]]>>
            /\ Len(adapterCalls[r]) = 1
            /\ adapterCalls[r][1].prompt = Sent_Prompt(r)
            /\ <<adapterCalls[r][1].requestId>> = xRequestId[r]
            /\ req[r][1].route = "POST /"
            /\ ViolatedRules(Sent_Prompt(r)) = {}
            /\ Sent_Prompt(r).pats = {}

\* Two requests have been served, with different results.
C21_Witness ==
    \E r, q \in Reqs :
        /\ results[r] # <<>> /\ results[q] # <<>>
        /\ results[r] # results[q]
        /\ resp[r] # <<>> /\ resp[q] # <<>>
        /\ resp[r][1].body # resp[q][1].body

\* The error reaching errorHandler is answered by the fallback responder.
Fallback(e) == e.name # "ZodError" /\ e.cause # <<"ECONNREFUSED">>

C23_LogLevelFollowsAnsweredStatus ==
    \A r \in Reqs :
        Dispatched(r) =>
            \A i \in ErrorEntries(r) :
                IF resp[r][1].status >= 500
                THEN /\ log[r][i].level = "error"
                     /\ log[r][i].msg = "Application error"
                     /\ log[r][i].stack
                ELSE /\ log[r][i].level = "warn"
                     /\ log[r][i].msg = "Operational error"
                     /\ ~log[r][i].stack

\* C24: a request the controller runs for is passed to the inference
\* adapter whether or not publishing the audit message failed, and the
\* failure of the publish is not what the client is answered with.
C24_PublishFailureNeverReachesClient ==
    \A r \in Reqs :
        "chat" \in stages[r] =>
            /\ Len(adapterCalls[r]) = 1
            /\ err[r] # <<ChannelClosedError>>
            /\ resp[r] # <<>> => (resp[r][1].status = 200 \/ results[r] = <<>>)

\* An audit record has been submitted for the request: the controller's
\* message on the queue, or the error audit of errorHandler.
AuditSubmitted(r) == published[r] > 0 \/ audit[r] # "none"

Responds(r) == Len(resp'[r]) > Len(resp[r])

\* C27: whenever a response is sent for a request, by whichever stage,
\* the X-Request-ID header of the response is set already and holds the
\* id the request was given at its start; the header never changes.
C27_EveryResponseCarriesRequestId ==
    [][\A r \in Reqs :
         /\ Responds(r) => (xRequestId[r] = <<r>> /\ xRequestId'[r] = <<r>>)
         /\ xRequestId[r] # <<>> => xRequestId'[r] = xRequestId[r]]_vars

\* The rate limiter's 429 and the 400 of the content filter have been
\* sent, each under the id of its request.
C27_Witness ==
    \E r, q \in Reqs :
        /\ resp[r] = <<RateLimitResponse>> /\ xRequestId[r] = <<r>>
        /\ resp[q] = <<ContentRejectedResponse>> /\ xRequestId[q] = <<q>>

\* The gate's 500 and the 404 have been sent, each under the id of its
\* request.
C27_WitnessGate ==
    \E r, q \in Reqs :
        /\ resp[r] = <<GateErrorResponse>> /\ xRequestId[r] = <<r>>
        /\ resp[q] = <<NotFoundResponse>> /\ xRequestId[q] = <<q>>

\* The 503 and the 400 of the validation responder have been sent, each
\* under the id of its request.
C27_WitnessDispatched ==
    \E r, q \in Reqs :
        /\ Dispatched(r) /\ resp[r] # <<>> /\ resp[r][1].status = 503
        /\ xRequestId[r] = <<r>>
        /\ Dispatched(q) /\ resp[q] # <<>> /\ resp[q][1].status = 400
        /\ xRequestId[q] = <<q>>

\* The completion events in the request's log that carry the request id,
\* the status code and the elapsed time.
TimedCompletionEvents(r) ==
    {i \in 1..Len(log[r]) :
        /\ "fields" \in DOMAIN log[r][i]
        /\ {"requestId", "statusCode", "duration"} \subseteq log[r][i].fields
        /\ log[r][i].statusCode = resp[r][1].status}

\* The start events in the request's log.
StartEvents(r) == {i \in 1..Len(log[r]) : log[r][i].msg = "Incoming request"}

\* C28: a request has exactly one start event, logged ahead of
\* everything else, and once its response has finished its log holds a
\* completion event with the request id, the status code and the elapsed
\* time, whichever stage answered.
C28_StartAndTimedCompletionLogged ==
    \A r \in Reqs :
        /\ pc[r] # "new" => StartEvents(r) = {1}
        /\ pc[r] = "done" => TimedCompletionEvents(r) # {}

\* C29: a request that reaches the limiter when 20 requests of its client
\* have been counted in the running window is answered 429 and goes
\* neither to validatePrompt nor to the inference adapter; one that finds
\* fewer counted is let through unanswered; the counters of the other
\* clients are left alone.
C29_LimitedFromThe21stOn ==
    [][\A r \in Reqs :
         /\ (pc[r] = "rate" /\ pc'[r] # "rate") =>
               /\ IF hits[client[r]] >= 20
                  THEN resp'[r] = <<RateLimitResponse>> /\ pc'[r] = "finishing"
                  ELSE resp'[r] = <<>> /\ pc'[r] = "validate"
               /\ hits'[client[r]] = hits[client[r]] + 1
               /\ \A c \in Clients \ {client[r]} : hits'[c] = hits[c]
         /\ resp'[r] = <<RateLimitResponse>> =>
               /\ "validatePrompt" \notin stages'[r]
               /\ adapterCalls'[r] = <<>>
               /\ pc'[r] \in {"finishing", "done"}]_vars

\* The 21st request of one client has been refused while a request of
\* another client, made in the same minute, was handed to the adapter.
C29_Witness ==
    \E r, q \in Reqs :
        /\ client[r] # client[q]
        /\ hits[client[r]] = 21 /\ resp[r] = <<RateLimitResponse>>
        /\ hits[client[q]] >= 1 /\ adapterCalls[q] # <<>>

\* The 20th and the 21st request of one client: the first was let
\* through, the second refused.
C29_WitnessSameClient ==
    \E r, q \in Reqs :
        /\ r # q /\ client[r] = client[q]
        /\ hits[client[r]] = 21
        /\ "validatePrompt" \in stages[r]
        /\ resp[q] = <<RateLimitResponse>>

\* C30: a request for anything but POST / is answered 404 with body
\* {message: 'Ruta no encontrada'}.
C30_UnmatchedRouteGets404 ==
    \A r \in Reqs :
        (req[r] # <<>> /\ req[r][1].route # "POST /" /\ resp[r] # <<>>) =>
            resp[r] = <<NotFoundResponse>>

\* C31 as stated: no exhaustion of the retries ever terminates the process.
C31_ExhaustionNeverTerminates == pc[Server] # "exited"

\* C31 amended: a request whose gate call raises the fatal error is
\* answered 500 and the process stays up and keeps accepting requests; the
\* process terminates only when the connectToDatabase call of startServer
\* has used up the retries and fails again, before the server listens and
\* before any request was accepted.
C31_ExhaustionExitsOnlyAtStartup ==
    [][/\ \A r \in Reqs :
            (pc[r] = "connecting" /\ pc'[r] = "finishing") =>
               /\ retryCount = MAX_RETRIES
               /\ resp'[r] = <<GateErrorResponse>>
               /\ Alive' /\ Accepting'
       /\ (\E r \in Reqs : Fatal(r)) => (Alive' /\ Accepting')
       /\ (Alive /\ ~Alive') =>
            /\ pc[Server] = "connecting"
            /\ retryCount = MAX_RETRIES
            /\ ~isConnected
            /\ \A r \in Reqs : pc[r] = "new" /\ resp[r] = <<>>]_vars

\* Two requests in a row were answered 500 by the gate with the retries
\* used up, and the process is still accepting requests.
C31_Witness ==
    /\ \A r \in Reqs : pc[r] = "done" /\ resp[r] = <<GateErrorResponse>>
    /\ retryCount = MAX_RETRIES
    /\ ~isConnected
    /\ Accepting

\* C32: every CustomError has status 'fail' when its statusCode is in
\* 400..499 and 'error' when it is 500 or above, and isOperational true.
C32_StatusFollowsStatusCode ==
    \A r \in Reqs :
        (pc[r] = "done" /\ err[r] # <<>>) =>
            LET e == err[r][1] IN
            /\ (e.statusCode \in 400..499 => e.status = "fail")
            /\ (e.statusCode >= 500 => e.status = "error")
            /\ e.isOperational

\* The stages behind initRabbitMQ (app.js:149-163).
BehindMq == {"rateLimiter", "validatePrompt", "router", "chat", "notFound",
             "errorHandler"}

\* The request was answered by the catch block of initRabbitMQ.
MqAnswered(r) == \E i \in 1..Len(resp[r]) : resp[r][i] = MqErrorResponse

\* C33: a request for which amqp.connect, createChannel or assertQueue
\* fails is answered 500 by initRabbitMQ, once, and reaches neither the
\* rate limiter nor the validation nor the adapter; a request that finds
\* the module's channel set is forwarded to the rate limiter without
\* opening a connection.
C33_MqFailureStopsExistingChannelForwards ==
    [][\A r \in Reqs :
         /\ (pc[r] = "mq-connect" /\ pc'[r] \notin {"mq-connect", "mq-channel"}) =>
               (resp'[r] = <<MqErrorResponse>> /\ pc'[r] = "finishing")
         /\ (pc[r] = "mq-channel" /\ pc'[r] \notin {"mq-channel", "mq-assert"}) =>
               (resp'[r] = <<MqErrorResponse>> /\ pc'[r] = "finishing")
         /\ (pc[r] = "mq-assert" /\ pc'[r] \notin {"mq-assert", "rate"}) =>
               (resp'[r] = <<MqErrorResponse>> /\ pc'[r] = "finishing")
         /\ MqAnswered(r)' =>
               /\ resp'[r] = <<MqErrorResponse>>
               /\ pc'[r] \in {"finishing", "done"}
               /\ stages'[r] \cap BehindMq = {}
               /\ adapterCalls'[r] = <<>>
               /\ validatedPrompt'[r] = <<>>
         /\ (channel /\ pc[r] = "mq" /\ pc'[r] # "mq") =>
               /\ pc'[r] = "rate"
               /\ resp'[r] = <<>>
               /\ UNCHANGED mqVars]_vars

\* One request was answered 500 by initRabbitMQ, which had set the
\* channel, and has finished; the other one found the channel set, opened
\* no connection and has reached the adapter.
C33_Witness ==
    \E r, q \in Reqs :
        /\ pc[r] = "done" /\ MqAnswered(r)
        /\ channel /\ ~queueAsserted
        /\ "initRabbitMQ" \in stages[q] /\ adapterCalls[q] # <<>>

\* The processes with a mongoose.connect call or a retry delay pending.
InFlight == {p \in Procs : pc[p] \in {"connecting", "delay"}}

\* C34: at most one connection attempt (or retry delay) is pending at any
\* time; a request that reaches the gate while one is pending starts no
\* second one.
C34_SingleAttemptInFlight == Cardinality(InFlight) <= 1

\* C35: whenever the state is Connected, retryCount is 0, whatever the
\* interleaving of the connectToDatabase calls.
C35_ConnectedImpliesZeroRetries == isConnected => retryCount = 0

\* The retry loop is bounded: no call makes more than MAX_RETRIES + 1
\* attempts, and all calls together make at most MAX_RETRIES retries.
BoundedAttempts ==
    /\ \A p \in Procs : attempts[p] <= MAX_RETRIES + 1
    /\ retryCount <= MAX_RETRIES

\* C36: while the store stays unreachable, every request that reaches the
\* gate is eventually answered 500 by the gate, after a bounded number of
\* attempts, also when several requests retry at the same time on the
\* shared retryCount.
C36_GateEventuallyAnswers500 ==
    /\ \A r \in Reqs : (pc[r] = "gate") ~> (resp[r] = <<GateErrorResponse>>)
    /\ []BoundedAttempts

\* Both requests retried side by side and both were answered 500.
C36_Witness ==
    /\ \A r \in Reqs : resp[r] = <<GateErrorResponse>> /\ attempts[r] >= 2
    /\ retryCount = MAX_RETRIES

\* C37: a request is sent at most one response; the step that sends it
\* hands the request to no further stage, and once a response has been
\* sent no stage runs for the request and no response is added or changed.
C37_AtMostOneResponse ==
    [][\A r \in Reqs :
         /\ Len(resp'[r]) <= 1
         /\ (resp[r] = <<>> /\ resp'[r] # <<>>) => pc'[r] = "finishing"
         /\ resp[r] # <<>> =>
               /\ resp'[r] = resp[r]
               /\ stages'[r] = stages[r]
               /\ pc'[r] \in {"finishing", "done"}]_vars

\* One request was answered by the errorHandler and the other one by the
\* controller; both have finished with a single response.
C37_Witness ==
    \E r, q \in Reqs :
        /\ pc[r] = "done" /\ "errorHandler" \in stages[r] /\ Len(resp[r]) = 1
        /\ pc[q] = "done" /\ Len(resp[q]) = 1 /\ resp[q][1].status = 200

\* C38: whenever the module's channel is set the 'auditoria' queue has
\* been asserted on it, and a request is forwarded on the existing-channel
\* path only after an initialisation completed assertQueue.
C38_ChannelSetImpliesQueueAsserted ==
    [][/\ channel' => queueAsserted'
       /\ \A r \in Reqs :
            (pc[r] = "mq" /\ pc'[r] = "rate") => queueAsserted]_vars

\* C38 for the forwarding alone, leaving out the time between
\* createChannel and assertQueue of the initialising request.
C38_FastPathOnlyAfterAssert ==
    [][\A r \in Reqs : (pc[r] = "mq" /\ pc'[r] = "rate") => queueAsserted]_vars

\* C39: while the store stays unreachable, retryCount is MAX_RETRIES
\* after a fatal error and stays there; a request that reaches the gate in
\* that situation starts one connection attempt, and when that attempt
\* fails the request is answered 500 at once, with no retry and no retry
\* delay.
C39_OneAttemptAfterFatal ==
    [][/\ retryCount = MAX_RETRIES => retryCount' = MAX_RETRIES
       /\ \A r \in Reqs :
            /\ (pc[r] = "gate" /\ pc'[r] # "gate" /\ retryCount = MAX_RETRIES) =>
                  (pc'[r] = "connecting" /\ attempts'[r] = 1)
            /\ (pc[r] = "connecting" /\ pc'[r] # "connecting"
                   /\ attempts[r] = 1 /\ retryCount = MAX_RETRIES) =>
                  /\ pc'[r] = "finishing"
                  /\ resp'[r] = <<GateErrorResponse>>
                  /\ attempts'[r] = 1
            /\ Fatal(r) => retryCount = MAX_RETRIES]_vars

\* A request was answered with the fatal error after its retries; the
\* request that arrived after that made one attempt and was answered 500.
C39_Witness ==
    \E q, r \in Reqs :
        /\ Fatal(q) /\ attempts[q] > 1
        /\ Fatal(r) /\ attempts[r] = 1
        /\ retryCount = MAX_RETRIES

====
